---- MODULE Spec2Model ----
(***************************************************************************)
(* Mimir orchestrator (src/pipelines/mimir_orchestrator.py): the task      *)
(* execution engine of Pipe.  _execute_tasks schedules the parsed tasks in *)
(* dependency waves, split into parallel groups that are gathered one      *)
(* after the other; _execute_with_qc runs one task through the             *)
(* worker -> QC -> retry loop; _execute_worker and _execute_qc call the    *)
(* completion service through _call_llm.                                   *)
(*                                                                         *)
(* Optional values (Python None, a regex that did not match) are           *)
(* sequences of length 0 or 1.  Task ids are 1..MaxTasks in document       *)
(* order.  Exceptions are modelled where the code handles them: the        *)
(* try/except of _execute_worker and _execute_qc, and the in-band error    *)
(* text that _call_llm yields instead of raising.                          *)
(***************************************************************************)
EXTENDS Integers, Sequences, FiniteSets, TLC

\* ---------------------------------------------------------------- bounds
\* Number of tasks of a plan.
MaxTasks == 3
\* Total number of dependency edges of a plan.
MaxEdges == 2
\* Largest "Max Retries" value a plan segment states.
MaxPlanRetries == 3
\* Number of tasks of a plan in the runs checked for termination.
MaxLiveTasks == 2
\* Number of tasks of a plan in the runs over a failing graph store.
MaxStoreTasks == 1
\* Largest score a verifier answer states (the QC prompt asks for 0-100).
MaxScore == 100
MaxRequests == 2
MaxSeconds == 3
TicksPerSecond == 2
MaxPipeTasks == 1
MaxRewriteTasks == 2
MaxLines == 3
MaxTextLen == 3

\* ------------------------------------------------------ program constants
\* _execute_with_qc: max_retries = 2
max_retries == 2
\* _execute_qc: score >= 80
PASS_SCORE == 80

VARIABLES
    tasks,            \* the parsed task list: id, dependencies, parallel_group
    plan_max_retries, \* "**Max Retries:**" of each plan segment (the parser drops it)
    llm,              \* what the completion service can answer in this run
    completed,        \* _execute_tasks: completed
    remaining,        \* _execute_tasks: remaining
    groups,           \* groups of the current ready list still to be gathered
    group_tasks,      \* the group being gathered
    ctl,              \* position of _execute_tasks
    wave,             \* number of the first ready list each task was in (0: none)
    wave_no,          \* number of ready lists computed so far
    pc,               \* position of each task's _execute_with_qc
    attempt_number,   \* _execute_with_qc: attempt_number
    worker_log,       \* outcome of each finished worker call of a task
    worker_calls,     \* number of worker invocations of a task
    qc_calls,         \* number of verifier invocations of a task
    qc_history,       \* _execute_with_qc: qc_history
    result,           \* what _execute_with_qc returned for a task
    result_status,    \* task['result_status'] written by _execute_tasks
    result_error,     \* task['result_error'] written by _execute_tasks
    report,           \* what _execute_tasks told the caller at its end
    graph,            \* status of each task's todo node in the graph store (None: no node)
    worker_context,   \* retry context in the prompt of each task's latest worker call
    pipe,             \* Pipe.pipe: the clock, the request caches and the requests handled
    parser            \* _parse_pm_tasks: the PM output and what the parser made of it

vars == <<tasks, plan_max_retries, llm, completed, remaining, groups, group_tasks,
          ctl, wave, wave_no, pc, attempt_number, worker_log, worker_calls,
          qc_calls, qc_history, result, result_status, result_error, report,
          graph, worker_context, pipe, parser>>

\* The state of _execute_tasks and of its _execute_with_qc coroutines.
machine_vars ==
    <<tasks, plan_max_retries, llm, completed, remaining, groups, group_tasks,
      ctl, wave, wave_no, pc, attempt_number, worker_log, worker_calls,
      qc_calls, qc_history, result, result_status, result_error, report>>

\* ------------------------------------------------------------- helpers
None == <<>>
Some(x) == <<x>>

\* dict.get(key, default) on an optional value
Get(opt, default) == IF opt = None THEN default ELSE opt[1]

Last(s) == s[Len(s)]

Indices == 1..Len(tasks)

\* The indices of a task list in document order.
IndexSeq(n) == [k \in 1..n |-> k]

RECURSIVE EdgeCount(_, _)
EdgeCount(deps, n) == IF n = 0 THEN 0 ELSE Cardinality(deps[n]) + EdgeCount(deps, n - 1)

\* ------------------------------------------------- the completion service
\* _call_llm: it streams text ("text"); on a non-200 answer or any exception
\* inside its try block it yields the error as text ("errtext"); an exception
\* outside its try block reaches the caller ("raise").
LLM_OUTCOMES == {"text", "errtext", "raise"}

\* A verifier answer: how the call ended and what the verdict and score
\* patterns find in the text.
QCReply(kind, verdict, score) == [kind |-> kind, verdict |-> verdict, score |-> score]

QC_RAISE == QCReply("raise", None, None)
QC_ERRTEXT == QCReply("errtext", None, None)

VERDICT_TEXTS == {"PASS", "FAIL", "pass", "fail"}

QCTextReplies(verdicts, scores) ==
    {QCReply("text", v, s) : v \in {None} \cup {Some(x) : x \in verdicts},
                             s \in {None} \cup {Some(x) : x \in scores}}

\* ------------------------------------------------------------ _execute_qc
\* str.upper() of the matched verdict
Upper(v) == CASE v = "pass" -> "PASS" [] v = "fail" -> "FAIL" [] OTHER -> v

\* verdict = verdict_match.group(1).upper() if verdict_match else "FAIL"
ParseVerdict(reply) == IF reply.verdict = None THEN "FAIL" ELSE Upper(reply.verdict[1])

\* score = int(score_match.group(1)) if score_match else 0
ParseScore(reply) == Get(reply.score, 0)

\* 'passed': verdict == "PASS" and score >= 80
QCPassedMut(verdict, score) == verdict = "PASS" /\ score > PASS_SCORE
QCPassed(verdict, score) == verdict = "PASS" /\ score >= PASS_SCORE

\* The except branch of _execute_qc.
QCExceptResultMut(reply) ==
    [passed |-> TRUE, score |-> 0, feedback |-> "qc_execution_failed", reply |-> reply]
QCExceptResult(reply) ==
    [passed |-> FALSE, score |-> 0, feedback |-> "qc_execution_failed", reply |-> reply]

ExecuteQC(reply) ==
    IF reply.kind = "raise"
    THEN QCExceptResult(reply)
    ELSE [passed |-> QCPassed(ParseVerdict(reply), ParseScore(reply)),
          score |-> ParseScore(reply),
          feedback |-> "qc_output",
          reply |-> reply]

\* -------------------------------------------------------- _execute_with_qc
\* while attempt_number <= max_retries
LoopCondition(attempt) == attempt <= max_retries

\* if attempt_number > max_retries (circuit breaker)
CircuitBreakerMut(attempt) == attempt >= max_retries
CircuitBreakerNever(attempt) == FALSE
CircuitBreaker(attempt) == attempt > max_retries

\* if worker_result['status'] == 'failed'
WorkerFailed(outcome) == outcome = "raise"

\* _execute_worker: the retry context put into the worker prompt,
\* last_qc = qc_history[-1] if attempt_number > 1 and qc_history.
RetryContextFirst(attempt, history) ==
    IF attempt > 1 /\ history # <<>> THEN Some(Head(history)) ELSE None
RetryContext(attempt, history) ==
    IF attempt > 1 /\ history # <<>> THEN Some(Last(history)) ELSE None

NoResult ==
    [status |-> "none", output |-> None, error |-> None, qc_score |-> None,
     attempts |-> None]

\* _execute_worker's except branch, returned unchanged by _execute_with_qc
WorkerFailedResult ==
    [status |-> "failed", output |-> None, error |-> Some("worker_error"),
     qc_score |-> None, attempts |-> None]

CompletedResult(output, qc_result, attempt) ==
    [status |-> "completed", output |-> Some(output), error |-> None,
     qc_score |-> Some(qc_result.score), attempts |-> Some(attempt)]

QCFailedResult(output, qc_result, attempt) ==
    [status |-> "failed", output |-> Some(output), error |-> Some("qc_failed"),
     qc_score |-> Some(qc_result.score), attempts |-> Some(attempt)]

\* The return after the retry loop ("Should never reach here").
UnexpectedResult ==
    [status |-> "failed", output |-> None, error |-> Some("unexpected_error"),
     qc_score |-> None, attempts |-> None]

\* ---------------------------------------------------------- _execute_tasks
\* group = task['parallel_group'] if task['parallel_group'] is not None else -1
GroupKey(task) == Get(task.parallel_group, -1)

\* ready = [task for task in tasks if task['id'] in remaining
\*          and all(dep in completed for dep in task['dependencies'])]
ReadyNoDeps(tks, rem, comp) ==
    LET Test(k) == tks[k].id \in rem
    IN SelectSeq(IndexSeq(Len(tks)), Test)
ReadyFirstOnly(tks, rem, comp) ==
    LET Test(k) == /\ tks[k].id \in rem
                   /\ \A dep \in tks[k].dependencies : dep \in comp
    IN SubSeq(SelectSeq(IndexSeq(Len(tks)), Test), 1, 1)
ReadyNoRemaining(tks, rem, comp) ==
    LET Test(k) == \A dep \in tks[k].dependencies : dep \in comp
    IN SelectSeq(IndexSeq(Len(tks)), Test)
Ready(tks, rem, comp) ==
    LET Test(k) == /\ tks[k].id \in rem
                   /\ \A dep \in tks[k].dependencies : dep \in comp
    IN SelectSeq(IndexSeq(Len(tks)), Test)

\* The keys of the groups dict in insertion order.
RECURSIVE GroupKeys(_, _)
GroupKeys(tks, rdy) ==
    IF rdy = <<>> THEN <<>>
    ELSE LET key == GroupKey(tks[Head(rdy)])
             Other(k) == GroupKey(tks[k]) # key
         IN <<key>> \o GroupKeys(tks, SelectSeq(Tail(rdy), Other))

\* groups.items(): one list of tasks per key, tasks in ready order.
GroupsAsOneWave(tks, rdy) == <<rdy>>
GroupsOnePerTask(tks, rdy) == [g \in 1..Len(rdy) |-> <<rdy[g]>>]
GroupsOf(tks, rdy) ==
    LET keys == GroupKeys(tks, rdy)
    IN [g \in 1..Len(keys) |->
          LET Same(k) == GroupKey(tks[k]) = keys[g] IN SelectSeq(rdy, Same)]

SeqRange(s) == {s[k] : k \in 1..Len(s)}

\* await asyncio.gather(*[...for task in group_tasks]): the coroutines whose
\* return the controller waits for, and whose results it then reads.
GatherCompleteEarly(gt) == TRUE
AwaitedFirst(gt) == {Head(gt)}
Awaited(gt) == SeqRange(gt)

GatherComplete(gt) == \A i \in Awaited(gt) : pc[i] = "returned"

\* has_failure after the loop over zip(group_tasks, results)
HasFailureNever(gt) == FALSE
HasFailure(gt) == \E i \in Awaited(gt) : result[i].status # "completed"

NoReport ==
    [kind |-> "none", error |-> FALSE, remaining |-> <<>>,
     completed_count |-> 0, failed_count |-> 0]

\* --------------------------------------------------------- the graph store
\* Every store function (_create_task_in_graph, _update_task_status,
\* _store_worker_output, _store_qc_result, _mark_task_completed,
\* _mark_task_failed) is one try block whose except branch logs and returns
\* False: a failed call (ok = FALSE) never raises into its caller.
StoreRaisesOnFailure(ok) == ~ok
StoreRaises(ok) == FALSE

\* _create_task_in_graph: the todo node is created with status 'pending'.
CreateTask(ok) == IF ok THEN Some("pending") ELSE None

\* _update_task_status: MATCH the todo nodes that carry the id of the task and
\* SET their status; a failed call and a task without a node leave the graph
\* as it is.
GraphWriteDropped(g, i, ok, status) == g
GraphWrite(g, i, ok, status) ==
    IF ok
    THEN [k \in DOMAIN g |->
            IF tasks[k].id = tasks[i].id /\ g[k] # None THEN Some(status) ELSE g[k]]
    ELSE g

\* ------------------------------------------------------------- Pipe.pipe
\* _CACHE_TTL = 3 and self._cache_ttl = 3 (seconds)
CACHE_TTL == 3

\* The clock time.time() in ticks of 1/TicksPerSecond second.
TTL_TICKS == CACHE_TTL * TicksPerSecond

\* Two Pipe objects of one process, each with its own self._request_cache.
Instances == {1, 2}

Messages == {"m1", "m2"}

\* The ids returned by pipes(), and a regular model.
MIMIR_MODELS == {"mimir:ecko-only", "mimir:ecko-pm", "mimir:full"}
Models == MIMIR_MODELS \cup {"gpt-4.1"}

\* request_key: the md5 digest of f"{user_message}:{model}"
Fingerprint(message, model) == <<message, model>>

\* pipeline_mode: the model id without its "mimir:" prefix, else "ecko-pm"
PipelineMode(model) ==
    CASE model = "mimir:ecko-only" -> "ecko-only"
      [] model = "mimir:ecko-pm" -> "ecko-pm"
      [] model = "mimir:full" -> "full"
      [] OTHER -> "ecko-pm"

\* self.valves: the defaults, and each stage switched off in turn
DefaultValves ==
    [ECKO_ENABLED |-> TRUE, PM_ENABLED |-> TRUE, WORKERS_ENABLED |-> TRUE,
     SEMANTIC_SEARCH_ENABLED |-> TRUE]

ValveSettings ==
    {DefaultValves,
     [DefaultValves EXCEPT !.ECKO_ENABLED = FALSE],
     [DefaultValves EXCEPT !.PM_ENABLED = FALSE],
     [DefaultValves EXCEPT !.WORKERS_ENABLED = FALSE]}

\* A request cache is a dictionary from fingerprints to times: a function
\* whose domain is the set of cached fingerprints.
EmptyCache == [key \in {} |-> 0]

\* if request_key in self._request_cache and current_time - cached_time < ttl
IsDuplicateInclusive(cache, key, current_time) ==
    /\ key \in DOMAIN cache
    /\ current_time - cache[key] <= TTL_TICKS
IsDuplicate(cache, key, current_time) ==
    /\ key \in DOMAIN cache
    /\ current_time - cache[key] < TTL_TICKS

\* self._request_cache[request_key] = current_time
CacheRequest(cache, key, current_time) ==
    [k \in DOMAIN cache \cup {key} |->
        IF k = key THEN current_time ELSE cache[k]]

\* the dictionary comprehension that keeps the entries younger than the TTL
PruneCacheNever(cache, current_time) == cache
PruneCache(cache, current_time) ==
    [key \in {k \in DOMAIN cache : current_time - cache[k] < TTL_TICKS} |->
        cache[key]]

\* int(time.time()) of f"orchestration-{int(time.time())}"
OrchestrationId(current_time) == current_time \div TicksPerSecond

\* f"{orchestration_id}-{id}": an id is the sequence of its parts
UniqueId(orchestration_id, id) == <<orchestration_id>> \o id

\* The loop that sets original_id and prefixes the id and the dependencies.
RewriteTaskIdOnly(orchestration_id, task) ==
    [id |-> UniqueId(orchestration_id, task.id),
     original_id |-> task.id,
     dependencies |-> task.dependencies,
     parallel_group |-> task.parallel_group]
RewriteTask(orchestration_id, task) ==
    [id |-> UniqueId(orchestration_id, task.id),
     original_id |-> task.id,
     dependencies |->
        {UniqueId(orchestration_id, dep_id) : dep_id \in task.dependencies},
     parallel_group |-> task.parallel_group]

RewriteTasks(orchestration_id, plan) ==
    [k \in 1..Len(plan) |-> RewriteTask(orchestration_id, plan[k])]

\* The edges requested from _create_dependency_edge: from the task's id to
\* unique_dep_id = f"{orchestration_id}-{dep_id}" of each rewritten dependency.
DependencyEdges(orchestration_id, rewritten) ==
    UNION {{<<rewritten[k].id, UniqueId(orchestration_id, dep_id)>> :
               dep_id \in rewritten[k].dependencies} :
           k \in 1..Len(rewritten)}

\* How _execute_tasks ends: with the final summary or with the cascade stop.
EXECUTIONS == {"summary", "stopped"}

ExecutionEvent(execution) ==
    IF execution = "stopped"
    THEN "Orchestration stopped due to task failure"
    ELSE "All tasks completed"

\* What pipe() did for one request.
NoRequest ==
    [outcome |-> "none", instance |-> 0, key |-> <<>>, mode |-> "none",
     stages |-> {}, plan |-> None, tasks |-> <<>>, todolist |-> None,
     records |-> {}, edges |-> {}, worker_stage |-> "skipped",
     done_events |-> <<>>]

\* No request has been handled; the clock is at 0 and every cache is empty.
PipeIdle ==
    [now |-> 0, valves |-> DefaultValves, model |-> "gpt-4.1",
     caches |-> [inst \in Instances |-> EmptyCache],
     handled |-> 0, created |-> {}, last |-> NoRequest]

\* Stage 1 is entered
EckoStage(valves, mode) ==
    valves.ECKO_ENABLED /\ mode \in {"ecko-only", "ecko-pm", "full"}

\* Stage 2 is entered (pipe returns from stage 1 in mode ecko-only)
PMStage(valves, mode) ==
    /\ ~(EckoStage(valves, mode) /\ mode = "ecko-only")
    /\ valves.PM_ENABLED /\ mode \in {"ecko-pm", "full"}

\* Stage 3 is entered (pipe returns from stage 2 in mode ecko-pm)
WorkerStageAnyMode(valves, mode) ==
    /\ ~(EckoStage(valves, mode) /\ mode = "ecko-only")
    /\ ~(PMStage(valves, mode) /\ mode = "ecko-pm")
    /\ valves.WORKERS_ENABLED
WorkerStage(valves, mode) ==
    /\ ~(EckoStage(valves, mode) /\ mode = "ecko-only")
    /\ ~(PMStage(valves, mode) /\ mode = "ecko-pm")
    /\ valves.WORKERS_ENABLED /\ mode = "full"

StagesEntered(valves, mode) ==
    (IF EckoStage(valves, mode)
     THEN {"ecko"} \cup (IF valves.SEMANTIC_SEARCH_ENABLED THEN {"context"} ELSE {})
     ELSE {})
    \cup (IF PMStage(valves, mode) THEN {"pm"} ELSE {})
    \cup (IF WorkerStage(valves, mode) THEN {"workers"} ELSE {})

\* 'if tasks:' guards the todoList, the id rewriting and the task records
CreatesRecords(plan) == plan # <<>>

\* 'if not tasks:' reports that no tasks were found, else _execute_tasks runs
NoTasksFoundNever(plan) == FALSE
NoTasksFound(plan) == plan = <<>>

\* The request of an accepted fingerprint, from the debug info to the last
\* status event.  The plan is what _parse_pm_tasks returns for the PM output.
RunStages(inst, key, mode, valves, current_time, plan, execution) ==
    LET orchestration_id == OrchestrationId(current_time)
        base == [NoRequest EXCEPT !.outcome = "accepted", !.instance = inst,
                                  !.key = key, !.mode = mode,
                                  !.stages = StagesEntered(valves, mode)]
        rewritten == RewriteTasks(orchestration_id, plan)
    IN  IF EckoStage(valves, mode) /\ mode = "ecko-only"
        THEN [base EXCEPT !.done_events = <<"Ecko complete">>]
        ELSE IF PMStage(valves, mode) /\ mode = "ecko-pm"
        THEN [base EXCEPT !.done_events = <<"Planning complete">>]
        ELSE IF ~WorkerStage(valves, mode)
        THEN [base EXCEPT !.done_events = <<"Orchestration complete">>]
        ELSE IF ~PMStage(valves, mode)
        THEN \* pm_output is not bound: the NameError is caught by the except
             [base EXCEPT !.worker_stage = "error",
                          !.done_events = <<"Orchestration complete">>]
        ELSE LET found == IF NoTasksFound(plan) THEN "no_tasks" ELSE "executed"
                 events ==
                     IF NoTasksFound(plan)
                     THEN <<"Orchestration complete">>
                     ELSE <<ExecutionEvent(execution), "Orchestration complete">>
             IN  IF CreatesRecords(plan)
                 THEN [base EXCEPT
                         !.plan = Some(plan),
                         !.tasks = rewritten,
                         !.todolist = Some(orchestration_id),
                         !.records = {rewritten[k].id : k \in 1..Len(rewritten)},
                         !.edges = DependencyEdges(orchestration_id, rewritten),
                         !.worker_stage = found,
                         !.done_events = events]
                 ELSE [base EXCEPT !.plan = Some(plan),
                                   !.worker_stage = found,
                                   !.done_events = events]

\* -------------------------------------------------------- _parse_pm_tasks
\* A text is a sequence of atoms: a blank, a comma or a word.
BLANK == " "
COMMA == ","

\* str.lower() of a word
Lower(word) ==
    CASE word = "None" -> "none"
      [] word = "NONE" -> "none"
      [] word = "N/A" -> "n/a"
      [] OTHER -> word

LowerText(text) == [k \in 1..Len(text) |-> Lower(text[k])]

IsBlankText(text) == \A k \in 1..Len(text) : text[k] = BLANK

\* str.lstrip(), str.rstrip() and str.strip()
RECURSIVE LStrip(_)
LStrip(text) ==
    IF text # <<>> /\ Head(text) = BLANK THEN LStrip(Tail(text)) ELSE text

RECURSIVE RStrip(_)
RStrip(text) ==
    IF text # <<>> /\ Last(text) = BLANK
    THEN RStrip(SubSeq(text, 1, Len(text) - 1))
    ELSE text

Strip(text) == RStrip(LStrip(text))

\* str.split(','): the texts between the commas (one empty text for "")
RECURSIVE Split(_)
Split(text) ==
    IF \A k \in 1..Len(text) : text[k] # COMMA
    THEN <<text>>
    ELSE LET k == CHOOSE j \in 1..Len(text) :
                      text[j] = COMMA /\ \A l \in 1..(j - 1) : text[l] # COMMA
         IN  <<SubSeq(text, 1, k - 1)>> \o Split(SubSeq(text, k + 1, Len(text)))

\* A line of the PM output: a field marker at its start followed by the rest
\* of the line, or (field "") a line without a marker.
Line(field, value) == [field |-> field, value |-> value]

Marker(field) ==
    CASE field = "Task ID" -> "**Task ID:**"
      [] field = "Dependencies" -> "**Dependencies:**"
      [] field = "Parallel Group" -> "**Parallel Group:**"

LineText(line) ==
    IF line.field = "" THEN line.value ELSE <<Marker(line.field)>> \o line.value

\* re.split(r'\n(?=\s*\*\*Task\s+ID:\*\*)', pm_output): the output is cut at
\* every newline that is followed, after white space only, by a Task ID
\* marker.  The lines at which a new section starts.
SectionStarts(pm_output) ==
    {1} \cup
    {k \in 2..Len(pm_output) :
        \E j \in k..Len(pm_output) :
            /\ pm_output[j].field = "Task ID"
            /\ \A l \in k..(j - 1) : /\ pm_output[l].field = ""
                                     /\ IsBlankText(pm_output[l].value)}

SectionFrom(pm_output, start) ==
    LET later == {k \in SectionStarts(pm_output) : k > start}
        stop == IF later = {} THEN Len(pm_output)
                ELSE (CHOOSE k \in later : \A l \in later : k <= l) - 1
    IN  SubSeq(pm_output, start, stop)

RECURSIVE StartsFrom(_, _)
StartsFrom(pm_output, k) ==
    IF k > Len(pm_output) THEN <<>>
    ELSE (IF k \in SectionStarts(pm_output) THEN <<k>> ELSE <<>>)
         \o StartsFrom(pm_output, k + 1)

\* task_sections, in document order
Sections(pm_output) ==
    LET starts == StartsFrom(pm_output, 1)
    IN  [i \in 1..Len(starts) |-> SectionFrom(pm_output, starts[i])]

\* not section.strip()
SectionEmpty(section) ==
    \A k \in 1..Len(section) :
        section[k].field = "" /\ IsBlankText(section[k].value)

\* What '\s*\n?([^\n]+)' captures after the marker of line k: the white space
\* after the marker is skipped, line ends included, and the capture runs from
\* the first other character to the end of its line.  When only white space
\* follows the marker, a run of blanks is captured, if there is one.
Captured(section, k) ==
    LET rest == section[k].value
        below == {j \in (k + 1)..Len(section) : ~IsBlankText(LineText(section[j]))}
        blanks == rest # <<>> \/ \E j \in (k + 1)..Len(section) :
                                     LineText(section[j]) # <<>>
    IN  IF ~IsBlankText(rest) THEN Some(LStrip(rest))
        ELSE IF below # {}
        THEN Some(LStrip(LineText(
                 section[CHOOSE j \in below : \A l \in below : j <= l])))
        ELSE IF blanks THEN Some(<<BLANK>>)
        ELSE None

\* extract_field(field_name): match.group(1).strip() if match else None, for
\* the first marker of the field in the section
ExtractField(section, field_name) ==
    LET lines == {k \in 1..Len(section) : section[k].field = field_name}
    IN  IF lines = {} THEN None
        ELSE LET k == CHOOSE j \in lines : \A l \in lines : j <= l
                 match == Captured(section, k)
             IN  IF match = None THEN None ELSE Some(Strip(match[1]))

\* The words that 'task[-\s]*\d+(?:\.\d+)?' matches
ID_WORDS == {"task-1", "task-2", "task 3"}

\* task_id_match.group(1).replace(' ', '-')
NormalizeId(word) == CASE word = "task 3" -> "task-3" [] OTHER -> word

\* re.search(r'\*\*Task\s+ID:\*\*\s*(task[-\s]*\d+(?:\.\d+)?)', section)
TaskIdMatch(section) ==
    LET lines == {k \in 1..Len(section) :
                    /\ section[k].field = "Task ID"
                    /\ Captured(section, k) # None
                    /\ Captured(section, k)[1] # <<>>
                    /\ Head(Captured(section, k)[1]) \in ID_WORDS}
    IN  IF lines = {} THEN None
        ELSE LET k == CHOOSE j \in lines : \A l \in lines : j <= l
             IN  Some(Head(Captured(section, k)[1]))

\* The dependencies of a section:
\* if dependencies_str and dependencies_str.lower() not in ['none', 'n/a']:
\*     dependencies = [d.strip() for d in dependencies_str.split(',')]
ParseDependencies(dependencies_str) ==
    IF /\ dependencies_str # None
       /\ dependencies_str[1] # <<>>
       /\ LowerText(dependencies_str[1]) \notin {<<"none">>, <<"n/a">>}
    THEN LET items == Split(dependencies_str[1])
         IN  [k \in 1..Len(items) |-> Strip(items[k])]
    ELSE <<>>

\* str.isdigit() holds for the decimal digits and for other digit characters
\* such as the superscript two; int() takes the decimal digits only.
DECIMALS == {"1", "2"}
DIGITS == DECIMALS \cup {"SUPERSCRIPT TWO"}

IsDigit(text) == text # <<>> /\ \A k \in 1..Len(text) : text[k] \in DIGITS

IntRaises(text) == \E k \in 1..Len(text) : text[k] \notin DECIMALS

RECURSIVE IntOf(_)
IntOf(text) ==
    IF text = <<>> THEN 0
    ELSE 10 * IntOf(SubSeq(text, 1, Len(text) - 1)) + (IF Last(text) = "1" THEN 1 ELSE 2)

\* parallel_group and parallel_group.isdigit(): int(parallel_group) is called
GroupConverted(parallel_group) ==
    parallel_group # None /\ IsDigit(parallel_group[1])

\* the dict appended for a section with a task id
ParsedTask(section) ==
    LET parallel_group == ExtractField(section, "Parallel Group")
    IN  [id |-> NormalizeId(TaskIdMatch(section)[1]),
         dependencies |-> ParseDependencies(ExtractField(section, "Dependencies")),
         parallel_group |-> IF GroupConverted(parallel_group)
                            THEN Some(IntOf(parallel_group[1])) ELSE None,
         status |-> "pending"]

\* The parser's state before the call and at its end.
NoParse == [pm_output |-> <<>>, called |-> FALSE, raised |-> FALSE,
            tasks |-> <<>>, skipped |-> <<>>]

\* The loop over task_sections from section i on: an empty section and a
\* section without a task id are printed as skipped; int() raising ends the
\* call with the exception.
RECURSIVE ParseSections(_, _, _)
ParseSections(sections, i, sofar) ==
    IF i > Len(sections) THEN sofar
    ELSE LET section == sections[i] IN
         IF SectionEmpty(section)
         THEN ParseSections(sections, i + 1,
                  [sofar EXCEPT !.skipped =
                      Append(@, [section |-> i, why |-> "Empty"])])
         ELSE IF TaskIdMatch(section) = None
         THEN ParseSections(sections, i + 1,
                  [sofar EXCEPT !.skipped =
                      Append(@, [section |-> i, why |-> "No task ID found"])])
         ELSE LET parallel_group == ExtractField(section, "Parallel Group") IN
              IF GroupConverted(parallel_group) /\ IntRaises(parallel_group[1])
              THEN [sofar EXCEPT !.raised = TRUE, !.tasks = <<>>]
              ELSE ParseSections(sections, i + 1,
                       [sofar EXCEPT !.tasks = Append(@, ParsedTask(section))])

ParsePMTasks(pm_output) ==
    ParseSections(Sections(pm_output), 1,
                  [NoParse EXCEPT !.pm_output = pm_output, !.called = TRUE])

\* ------------------------------------------------------------------ Init
Groups == {None, Some(1)}

\* The plans: MaxTasks tasks with ids 1..MaxTasks, any dependency relation of
\* at most MaxEdges edges (cycles and self-dependencies included).
Plans ==
    {[k \in 1..MaxTasks |->
         [id |-> k, dependencies |-> deps[k], parallel_group |-> grp[k]]] :
       deps \in {d \in [1..MaxTasks -> SUBSET (1..MaxTasks)] :
                    EdgeCount(d, MaxTasks) <= MaxEdges},
       grp \in [1..MaxTasks -> Groups]}

\* A plan of one task, with or without a dependency on itself.
SinglePlans ==
    {<<[id |-> 1, dependencies |-> deps, parallel_group |-> grp]>> :
       deps \in SUBSET {1}, grp \in Groups}

\* The plans of n tasks, cycles and self-dependencies included.
PlansOfSize(n) ==
    {[k \in 1..n |->
         [id |-> k, dependencies |-> deps[k], parallel_group |-> grp[k]]] :
       deps \in {d \in [1..n -> SUBSET (1..n)] : EdgeCount(d, n) <= MaxEdges},
       grp \in [1..n -> Groups]}

LivePlans == PlansOfSize(MaxLiveTasks)

StorePlans == PlansOfSize(MaxStoreTasks)

\* The plans of MaxLiveTasks segments as the parser delivers them: it appends
\* one task per segment that has a Task ID and never compares the ids, so two
\* segments may carry the same id.
DupPlans ==
    {[k \in 1..MaxLiveTasks |->
         [id |-> ids[k], dependencies |-> deps[k], parallel_group |-> grp[k]]] :
       ids \in [1..MaxLiveTasks -> 1..MaxLiveTasks],
       deps \in {d \in [1..MaxLiveTasks -> SUBSET (1..MaxLiveTasks)] :
                    EdgeCount(d, MaxLiveTasks) <= MaxEdges},
       grp \in [1..MaxLiveTasks -> Groups]}

\* A dependency id that is the id of no task of the plan.
UNKNOWN_ID == 0

\* The plans as the parser delivers them: it stores the ids of the
\* **Dependencies:** field as written, whether or not a task has that id.
PlansOver(dep_ids) ==
    {[k \in 1..MaxTasks |->
         [id |-> k, dependencies |-> deps[k], parallel_group |-> grp[k]]] :
       deps \in {d \in [1..MaxTasks -> SUBSET dep_ids] :
                    EdgeCount(d, MaxTasks) <= MaxEdges},
       grp \in [1..MaxTasks -> Groups]}

\* Runs of several tasks: the verifier passes or fails, the worker answers or raises.
RunLLM ==
    [worker |-> {"text", "raise"},
     qc |-> {QCReply("text", Some("PASS"), Some(PASS_SCORE)),
             QCReply("text", Some("FAIL"), Some(95))},
     store |-> {TRUE}]

\* The same runs over a graph store whose every call succeeds or fails.
StoreLLM == [RunLLM EXCEPT !.store = BOOLEAN]

\* One task: every kind of answer around the pass threshold.
TaskLLM ==
    [worker |-> LLM_OUTCOMES,
     qc |-> QCTextReplies({"PASS", "FAIL"}, {PASS_SCORE - 1, PASS_SCORE, 95})
            \cup {QC_RAISE, QC_ERRTEXT},
     store |-> {TRUE}]

InitMachine(plan, retries, service) ==
    /\ tasks = plan
    /\ plan_max_retries = retries
    /\ llm = service
    /\ completed = {}
    /\ remaining = {plan[k].id : k \in 1..Len(plan)}
    /\ groups = <<>>
    /\ group_tasks = <<>>
    /\ ctl = "loop"
    /\ wave = [k \in 1..Len(plan) |-> 0]
    /\ wave_no = 0
    /\ pc = [k \in 1..Len(plan) |-> "pending"]
    /\ attempt_number = [k \in 1..Len(plan) |-> 0]
    /\ worker_log = [k \in 1..Len(plan) |-> <<>>]
    /\ worker_calls = [k \in 1..Len(plan) |-> 0]
    /\ qc_calls = [k \in 1..Len(plan) |-> 0]
    /\ qc_history = [k \in 1..Len(plan) |-> <<>>]
    /\ result = [k \in 1..Len(plan) |-> NoResult]
    /\ result_status = [k \in 1..Len(plan) |-> None]
    /\ result_error = [k \in 1..Len(plan) |-> None]
    /\ report = NoReport
    /\ graph \in [1..Len(plan) -> {CreateTask(ok) : ok \in service.store}]
    /\ worker_context = [k \in 1..Len(plan) |-> None]

\* A run of _execute_tasks on its own.
InitRun(plan, retries, service) ==
    /\ InitMachine(plan, retries, service)
    /\ pipe = PipeIdle
    /\ parser = NoParse

Init ==
    \E plan \in Plans :
        InitRun(plan, [k \in 1..MaxTasks |-> max_retries], RunLLM)

\* Runs in which no capability fails and every verification passes.
PassLLM ==
    [worker |-> {"text"},
     qc |-> {QCReply("text", Some("PASS"), Some(PASS_SCORE)),
             QCReply("text", Some("pass"), Some(95))},
     store |-> {TRUE}]

InitAllPass ==
    \E plan \in Plans :
        InitRun(plan, [k \in 1..MaxTasks |-> max_retries], PassLLM)

InitTask ==
    \E plan \in SinglePlans, n \in 0..MaxPlanRetries :
        InitRun(plan, <<n>>, TaskLLM)

InitLive ==
    \E plan \in LivePlans :
        InitRun(plan, [k \in 1..MaxLiveTasks |-> max_retries], RunLLM)

InitStore ==
    \E plan \in StorePlans :
        InitRun(plan, [k \in 1..MaxStoreTasks |-> max_retries], StoreLLM)

InitDup ==
    \E plan \in DupPlans :
        InitRun(plan, [k \in 1..MaxLiveTasks |-> max_retries], RunLLM)

InitGraph ==
    \E plan \in PlansOver({UNKNOWN_ID} \cup 1..MaxTasks) :
        InitRun(plan, [k \in 1..MaxTasks |-> max_retries], RunLLM)

\* --------------------------------------------------------------- actions
\* _execute_tasks, loop head with a non-empty ready list: the ready list is
\* computed and split into groups.
ScheduleWave ==
    /\ ctl = "loop"
    /\ remaining # {}
    /\ LET ready == Ready(tasks, remaining, completed) IN
        /\ ready # <<>>
        /\ groups' = GroupsOf(tasks, ready)
        /\ wave_no' = wave_no + 1
        /\ wave' = [k \in Indices |->
                      IF k \in SeqRange(ready) /\ wave[k] = 0 THEN wave_no + 1
                      ELSE wave[k]]
    /\ ctl' = "groups"
    /\ UNCHANGED <<tasks, plan_max_retries, llm, completed, remaining, group_tasks,
                   pc, attempt_number, worker_log, worker_calls, qc_calls,
                   qc_history, result, result_status, result_error, report>>

\* _execute_tasks, loop head with an empty ready list: the error is yielded, the
\* loop is left and the final summary follows.
CircularDependencySilent ==
    /\ ctl = "loop"
    /\ remaining # {}
    /\ Ready(tasks, remaining, completed) = <<>>
    /\ ctl' = "done"
    /\ report' = [NoReport EXCEPT !.kind = "summary"]
    /\ UNCHANGED <<tasks, plan_max_retries, llm, completed, remaining, groups,
                   group_tasks, wave, wave_no, pc, attempt_number, worker_log,
                   worker_calls, qc_calls, qc_history, result, result_status,
                   result_error>>
CircularDependencyLoops ==
    /\ ctl = "loop"
    /\ remaining # {}
    /\ Ready(tasks, remaining, completed) = <<>>
    /\ UNCHANGED vars
CircularDependency ==
    /\ ctl = "loop"
    /\ remaining # {}
    /\ Ready(tasks, remaining, completed) = <<>>
    /\ ctl' = "done"
    /\ report' = [kind |-> "summary", error |-> TRUE, remaining |-> <<>>,
                  completed_count |->
                      Cardinality({k \in Indices : tasks[k].id \in completed
                                      /\ result_status[k] = Some("completed")}),
                  failed_count |->
                      Cardinality({k \in Indices : tasks[k].id \in completed
                                      /\ result_status[k] = Some("failed")})]
    /\ UNCHANGED <<tasks, plan_max_retries, llm, completed, remaining, groups,
                   group_tasks, wave, wave_no, pc, attempt_number, worker_log,
                   worker_calls, qc_calls, qc_history, result, result_status,
                   result_error>>

\* _execute_tasks, loop head with nothing remaining: the final summary.
FinalSummary ==
    /\ ctl = "loop"
    /\ remaining = {}
    /\ ctl' = "done"
    /\ report' = [kind |-> "summary", error |-> FALSE, remaining |-> <<>>,
                  completed_count |->
                      Cardinality({k \in Indices : tasks[k].id \in completed
                                      /\ result_status[k] = Some("completed")}),
                  failed_count |->
                      Cardinality({k \in Indices : tasks[k].id \in completed
                                      /\ result_status[k] = Some("failed")})]
    /\ UNCHANGED <<tasks, plan_max_retries, llm, completed, remaining, groups,
                   group_tasks, wave, wave_no, pc, attempt_number, worker_log,
                   worker_calls, qc_calls, qc_history, result, result_status,
                   result_error>>

\* for group_id, group_tasks in groups.items(): asyncio.gather starts
\* _execute_with_qc for every task of the next group; each generates its
\* preambles, enters its retry loop (attempt_number 0 passes the loop
\* condition), counts attempt 1 and invokes the worker.
StartGroup ==
    /\ ctl = "groups"
    /\ groups # <<>>
    /\ group_tasks' = Head(groups)
    /\ groups' = Tail(groups)
    /\ LET started == {k \in SeqRange(Head(groups)) : LoopCondition(0)} IN
        /\ pc' = [k \in Indices |->
                    IF k \in started THEN "worker"
                    ELSE IF k \in SeqRange(Head(groups)) THEN "returned" ELSE pc[k]]
        /\ attempt_number' = [k \in Indices |->
                                IF k \in started THEN 1 ELSE attempt_number[k]]
        /\ worker_calls' = [k \in Indices |->
                              IF k \in started THEN 1 ELSE worker_calls[k]]
        /\ result' = [k \in Indices |->
                        IF k \in SeqRange(Head(groups)) \ started
                        THEN UnexpectedResult ELSE result[k]]
    /\ ctl' = "gather"
    /\ UNCHANGED <<tasks, plan_max_retries, llm, completed, remaining, wave, wave_no,
                   worker_log, qc_calls, qc_history, result_status, result_error,
                   report>>

\* _execute_worker returns: a failed worker result is returned at once,
\* otherwise the output is stored and the verifier invoked.
WorkerReturn(i) ==
    /\ pc[i] = "worker"
    /\ \E outcome \in llm.worker :
        /\ worker_log' = [worker_log EXCEPT ![i] = Append(@, outcome)]
        /\ IF WorkerFailed(outcome)
           THEN /\ result' = [result EXCEPT ![i] = WorkerFailedResult]
                /\ pc' = [pc EXCEPT ![i] = "returned"]
                /\ UNCHANGED qc_calls
           ELSE /\ qc_calls' = [qc_calls EXCEPT ![i] = @ + 1]
                /\ pc' = [pc EXCEPT ![i] = "qc"]
                /\ UNCHANGED result
    /\ UNCHANGED <<tasks, plan_max_retries, llm, completed, remaining, groups,
                   group_tasks, ctl, wave, wave_no, attempt_number, worker_calls,
                   qc_history, result_status, result_error, report>>

\* _execute_qc returns with the answer `reply`: the result is appended to the
\* history.  A pass completes the task; a fail past max_retries fails it; any
\* other fail goes back to the loop head, where the next attempt is counted
\* and the worker invoked again (or, the loop condition failing, the
\* fall-through result after the loop is returned).
QCStep(i, reply) ==
    /\ pc[i] = "qc"
    /\ LET qc_result == ExecuteQC(reply)
           output == Last(worker_log[i])
       IN
        /\ qc_history' = [qc_history EXCEPT ![i] = Append(@, qc_result)]
        /\ IF qc_result.passed
           THEN /\ result' = [result EXCEPT ![i] =
                                 CompletedResult(output, qc_result, attempt_number[i])]
                /\ pc' = [pc EXCEPT ![i] = "returned"]
                /\ UNCHANGED <<attempt_number, worker_calls>>
           ELSE IF CircuitBreaker(attempt_number[i])
           THEN /\ result' = [result EXCEPT ![i] =
                                 QCFailedResult(output, qc_result, attempt_number[i])]
                /\ pc' = [pc EXCEPT ![i] = "returned"]
                /\ UNCHANGED <<attempt_number, worker_calls>>
           ELSE IF LoopCondition(attempt_number[i])
           THEN /\ attempt_number' = [attempt_number EXCEPT ![i] = @ + 1]
                /\ worker_calls' = [worker_calls EXCEPT ![i] = @ + 1]
                /\ pc' = [pc EXCEPT ![i] = "worker"]
                /\ UNCHANGED result
           ELSE /\ result' = [result EXCEPT ![i] = UnexpectedResult]
                /\ pc' = [pc EXCEPT ![i] = "returned"]
                /\ UNCHANGED <<attempt_number, worker_calls>>
    /\ UNCHANGED <<tasks, plan_max_retries, llm, completed, remaining, groups,
                   group_tasks, ctl, wave, wave_no, worker_log, qc_calls,
                   result_status, result_error, report>>

QCReturn(i) == \E reply \in llm.qc : QCStep(i, reply)

\* Runner state of a coroutine whose result has been consumed: the locals of
\* _execute_with_qc end with the coroutine.
Consumed(f, done, empty) == [k \in DOMAIN f |-> IF k \in done THEN empty ELSE f[k]]

\* The gather of the current group has returned: every result is stored in its
\* task (result_status, result_error) and every task of the group moves from
\* remaining to completed.  After a failure the stop is reported and
\* _execute_tasks returns; otherwise the loop goes on with the next group or
\* the next ready list, and the results of this group are dropped.
GatherResults ==
    /\ ctl = "gather"
    /\ GatherComplete(group_tasks)
    /\ LET done == Awaited(group_tasks)
           ids == {tasks[k].id : k \in done}
           left == remaining \ ids
           InLeft(k) == tasks[k].id \in left
       IN
        /\ result_status' = [k \in Indices |->
                               IF k \in done THEN Some(result[k].status)
                               ELSE result_status[k]]
        /\ result_error' = [k \in Indices |->
                              IF k \in done THEN result[k].error ELSE result_error[k]]
        /\ pc' = [k \in Indices |-> IF k \in done THEN "done" ELSE pc[k]]
        /\ completed' = completed \cup ids
        /\ remaining' = left
        /\ IF HasFailure(group_tasks)
           THEN /\ ctl' = "stopped"
                /\ report' = [kind |-> "stopped", error |-> FALSE,
                              remaining |-> SelectSeq(IndexSeq(Len(tasks)), InLeft),
                              completed_count |-> 0, failed_count |-> 0]
                /\ UNCHANGED <<attempt_number, worker_log, worker_calls, qc_calls,
                               qc_history, result>>
           ELSE /\ ctl' = IF groups = <<>> THEN "loop" ELSE "groups"
                /\ attempt_number' = Consumed(attempt_number, done, 0)
                /\ worker_log' = Consumed(worker_log, done, <<>>)
                /\ worker_calls' = Consumed(worker_calls, done, 0)
                /\ qc_calls' = Consumed(qc_calls, done, 0)
                /\ qc_history' = Consumed(qc_history, done, <<>>)
                /\ result' = Consumed(result, done, NoResult)
                /\ UNCHANGED report
    /\ UNCHANGED <<tasks, plan_max_retries, llm, groups, group_tasks, wave, wave_no>>

\* The steps of _execute_tasks and _execute_with_qc on their own state.
StateMachine ==
    \/ ScheduleWave
    \/ CircularDependency
    \/ FinalSummary
    \/ StartGroup
    \/ GatherResults
    \/ \E i \in Indices : WorkerReturn(i)
    \/ \E i \in Indices : QCReturn(i)

\* An exception leaves _execute_with_qc: asyncio.gather re-raises it in
\* _execute_tasks, and pipe reports "Error during task execution".
StoreException ==
    /\ ctl' = "crashed"
    /\ UNCHANGED <<tasks, plan_max_retries, llm, completed, remaining, groups,
                   group_tasks, wave, wave_no, pc, attempt_number, worker_log,
                   worker_calls, qc_calls, qc_history, result, result_status,
                   result_error, report, graph, worker_context, pipe, parser>>

\* The steps with their calls of the graph store and the prompt given to the
\* worker.  The scheduler itself makes no store call.
ScheduleWaveStep == ScheduleWave /\ UNCHANGED <<graph, worker_context, pipe, parser>>

CircularDependencyStep ==
    CircularDependency /\ UNCHANGED <<graph, worker_context, pipe, parser>>

FinalSummaryStep == FinalSummary /\ UNCHANGED <<graph, worker_context, pipe, parser>>

\* The prompts of the coroutines whose results are dropped go with them.
GatherResultsStep ==
    /\ GatherResults
    /\ worker_context' =
          IF ctl' = "stopped" THEN worker_context
          ELSE Consumed(worker_context, Awaited(group_tasks), None)
    /\ UNCHANGED <<graph, pipe, parser>>

\* Phase 2 of every started task: _update_task_status(..., "worker_executing").
StartGroupStep ==
    /\ ctl = "groups"
    /\ groups # <<>>
    /\ \E oks \in [SeqRange(Head(groups)) -> llm.store] :
          IF \E k \in DOMAIN oks : StoreRaises(oks[k])
          THEN StoreException
          ELSE /\ StartGroup
               /\ graph' = [k \in Indices |->
                               IF \E j \in DOMAIN oks :
                                     /\ pc'[j] = "worker"
                                     /\ GraphWrite(graph, j, oks[j], "worker_executing")[k]
                                           # graph[k]
                               THEN Some("worker_executing")
                               ELSE graph[k]]
               /\ worker_context' =
                     [k \in Indices |->
                        IF k \in DOMAIN oks /\ pc'[k] = "worker"
                        THEN RetryContext(attempt_number'[k], qc_history'[k])
                        ELSE worker_context[k]]
               /\ UNCHANGED <<pipe, parser>>

\* After a failed worker: _mark_task_failed.  Otherwise phase 3,
\* _store_worker_output, and phase 5, _update_task_status(..., "qc_executing").
WorkerReturnStep(i) ==
    /\ pc[i] = "worker"
    /\ \E ok1, ok2 \in llm.store :
          IF StoreRaises(ok1) \/ StoreRaises(ok2)
          THEN StoreException
          ELSE /\ WorkerReturn(i)
               /\ graph' =
                     IF pc'[i] = "returned"
                     THEN GraphWrite(graph, i, ok1, "failed")
                     ELSE GraphWrite(GraphWrite(graph, i, ok1, "worker_completed"),
                                     i, ok2, "qc_executing")
               /\ UNCHANGED <<worker_context, pipe, parser>>

\* Phase 6, _store_qc_result; then _mark_task_completed, _mark_task_failed, or
\* phase 2 of the next attempt.
QCReturnStep(i) ==
    /\ pc[i] = "qc"
    /\ \E ok1, ok2 \in llm.store :
          IF StoreRaises(ok1) \/ StoreRaises(ok2)
          THEN StoreException
          ELSE /\ QCReturn(i)
               /\ LET stored == GraphWrite(graph, i, ok1,
                                           IF Last(qc_history'[i]).passed
                                           THEN "qc_passed" ELSE "qc_failed")
                  IN graph' =
                        IF pc'[i] = "worker"
                        THEN GraphWrite(stored, i, ok2, "worker_executing")
                        ELSE IF result'[i] = UnexpectedResult
                        THEN stored
                        ELSE GraphWrite(stored, i, ok2, result'[i].status)
               /\ worker_context' =
                     IF pc'[i] = "worker"
                     THEN [worker_context EXCEPT
                             ![i] = RetryContext(attempt_number'[i], qc_history'[i])]
                     ELSE worker_context
               /\ UNCHANGED <<pipe, parser>>

Next ==
    \/ ScheduleWaveStep
    \/ CircularDependencyStep
    \/ FinalSummaryStep
    \/ StartGroupStep
    \/ GatherResultsStep
    \/ \E i \in Indices : WorkerReturnStep(i)
    \/ \E i \in Indices : QCReturnStep(i)

\* A run of _execute_tasks over a plan of MaxTasks tasks.
Spec == Init /\ [][Next]_vars

\* A run of _execute_tasks over a plan of one task.
SpecTask == InitTask /\ [][Next]_vars

\* A run of _execute_tasks in which every verification passes at once, every
\* capability call returns and the event loop keeps running the coroutines.
SpecAllPass == InitAllPass /\ [][Next]_vars /\ WF_vars(Next)

\* A run of _execute_tasks over a graph store whose calls may fail.
SpecStore == InitStore /\ [][Next]_vars

\* ------------------------------------------------------- requests to pipe
\* What _parse_pm_tasks returns for a PM output, the ids as texts: the plans
\* of at most n tasks that depend on earlier tasks, the empty plan included.
PipePlans(n) ==
    UNION {{[k \in 1..size |->
               [id |-> <<k>>,
                dependencies |-> {<<dep>> : dep \in deps[k]},
                parallel_group |-> None]] :
             deps \in {d \in [1..size -> SUBSET (1..size)] :
                         \A k \in 1..size : d[k] \subseteq 1..(k - 1)}} :
           size \in 0..n}

run_vars ==
    <<tasks, plan_max_retries, llm, completed, remaining, groups, group_tasks,
      ctl, wave, wave_no, pc, attempt_number, worker_log, worker_calls,
      qc_calls, qc_history, result, result_status, result_error, report,
      graph, worker_context, parser>>

\* time.time() advances, as long as a request may still arrive.  The first
\* request arrives within the first second: what pipe() does depends on time
\* differences and on the position within the second only.
Tick ==
    /\ pipe.now < MaxSeconds * TicksPerSecond
    /\ pipe.handled < MaxRequests
    /\ pipe.handled = 0 => pipe.now + 1 < TicksPerSecond
    /\ pipe' = [pipe EXCEPT !.now = @ + 1]
    /\ UNCHANGED run_vars

\* pipe() on one Pipe object for the last user message and the selected model.
\* The PM output is parsed, and a non-empty plan executed, only in stage 3.
\* The request is handled within one tick: both readings of time.time(), for
\* the cache and for the orchestration id, give the same time.
PipeRequestFrom(inst, message, plans) ==
    LET model == pipe.model
        mode == PipelineMode(model)
        request_key == Fingerprint(message, model)
        current_time == pipe.now
        cache == pipe.caches[inst]
        parses == WorkerStage(pipe.valves, mode) /\ PMStage(pipe.valves, mode)
    IN  /\ pipe.handled < MaxRequests
        /\ IF IsDuplicate(cache, request_key, current_time)
           THEN pipe' = [pipe EXCEPT
                           !.handled = @ + 1,
                           !.last = [NoRequest EXCEPT !.outcome = "duplicate",
                                                      !.instance = inst,
                                                      !.key = request_key]]
           ELSE \E plan \in IF parses THEN plans ELSE {<<>>} :
                \E execution \in IF parses /\ plan # <<>> THEN EXECUTIONS
                                  ELSE {"summary"} :
                   LET done == RunStages(inst, request_key, mode, pipe.valves,
                                         current_time, plan, execution)
                   IN  pipe' =
                         [pipe EXCEPT
                            !.handled = @ + 1,
                            !.caches[inst] =
                                PruneCache(CacheRequest(cache, request_key,
                                                        current_time),
                                           current_time),
                            !.created =
                                @ \cup {[run |-> pipe.handled + 1, id |-> id] :
                                           id \in done.records},
                            !.last = done]
        /\ UNCHANGED run_vars

PipeRequest(inst, message) ==
    PipeRequestFrom(inst, message, PipePlans(MaxPipeTasks))

NextPipe ==
    \/ Tick
    \/ \E inst \in Instances, message \in Messages : PipeRequest(inst, message)

InitPipe ==
    /\ InitMachine(<<>>, <<>>, RunLLM)
    /\ parser = NoParse
    /\ pipe \in {[PipeIdle EXCEPT !.valves = valves, !.model = model] :
                   valves \in ValveSettings, model \in Models}

\* Requests for one selected model arriving at the Pipe objects of one process
\* as time passes.
SpecPipe == InitPipe /\ [][NextPipe]_vars

\* What _parse_pm_tasks returns for a PM output whose tasks name any tasks of
\* the plan as dependencies (themselves and later tasks included).
RewritePlans(n) ==
    UNION {{[k \in 1..size |->
               [id |-> <<k>>,
                dependencies |-> {<<dep>> : dep \in deps[k]},
                parallel_group |-> None]] :
             deps \in [1..size -> SUBSET (1..size)]} :
           size \in 0..n}

\* One request in mode 'full' with every stage enabled.
RewriteRequest(inst, message) ==
    /\ pipe.handled = 0
    /\ PipeRequestFrom(inst, message, RewritePlans(MaxRewriteTasks))

NextRewrite ==
    \E inst \in Instances, message \in Messages : RewriteRequest(inst, message)

\* A Pipe object that has handled no request, at any time of the clock.
InitRewrite ==
    /\ InitMachine(<<>>, <<>>, RunLLM)
    /\ parser = NoParse
    /\ pipe \in {[PipeIdle EXCEPT !.model = "mimir:full", !.now = now] :
                   now \in 0..(MaxSeconds * TicksPerSecond)}

\* Stage 3 of one request: the plan is parsed, its ids are rewritten and the
\* records and edges are requested from the store.
SpecRewrite == InitRewrite /\ [][NextRewrite]_vars

\* ------------------------------------------------ calls of _parse_pm_tasks
\* The atoms of a Dependencies value.
DEPENDENCY_ATOMS == {BLANK, COMMA, "None", "N/A", "task-1"}

Texts(atoms, n) == UNION {[1..k -> atoms] : k \in 0..n}

\* One segment: the Task ID line, a Dependencies line with any value of at
\* most n atoms (or none), and what follows it.
SegmentOutputs(n) ==
    {<<Line("Task ID", <<BLANK, "task-1">>)>> \o dependencies \o below :
        dependencies \in {<<>>} \cup
            {<<Line("Dependencies", value)>> :
                value \in Texts(DEPENDENCY_ATOMS, n)},
        below \in {<<>>, <<Line("", <<>>)>>, <<Line("", <<"task-2">>)>>,
                   <<Line("Parallel Group", <<BLANK, "1">>)>>}}

\* The lines of the PM outputs of several segments.
LINES ==
    {Line("Task ID", value) :
        value \in {<<BLANK, "task-1">>, <<"task 3">>, <<"foo">>, <<>>}}
    \cup {Line("Dependencies", value) : value \in {<<BLANK, "None">>, <<"task-1">>}}
    \cup {Line("Parallel Group", value) : value \in {<<"1">>, <<"SUPERSCRIPT TWO">>}}
    \cup {Line("", value) : value \in {<<>>, <<"task-2">>}}

\* The PM outputs of at most n lines.
LineOutputs(n) == UNION {[1..k -> LINES] : k \in 1..n}

ParseCall ==
    /\ ~parser.called
    /\ parser' = ParsePMTasks(parser.pm_output)
    /\ UNCHANGED <<machine_vars, graph, worker_context, pipe>>

InitParse ==
    /\ InitMachine(<<>>, <<>>, RunLLM)
    /\ pipe = PipeIdle
    /\ parser \in {[NoParse EXCEPT !.pm_output = pm_output] :
                     pm_output \in SegmentOutputs(MaxTextLen)
                                   \cup LineOutputs(MaxLines)}

\* _parse_pm_tasks called on a PM output.
SpecParse == InitParse /\ [][ParseCall]_vars

\* The sections in which the parser finds a task id, in document order.
TaskSections(sections) ==
    SelectSeq(IndexSeq(Len(sections)),
              LAMBDA i : TaskIdMatch(sections[i]) # None)

\* A run of _execute_tasks over a plan whose task ids need not be unique.
SpecDup == InitDup /\ [][Next]_vars

\* A run of _execute_tasks over a plan whose dependency ids need not resolve.
SpecGraph == InitGraph /\ [][Next]_vars

\* A run of _execute_tasks in which every capability call returns and the
\* event loop keeps running the coroutines that can take a step.
SpecLive == InitLive /\ [][Next]_vars /\ WF_vars(Next)

\* ------------------------------------------- the pass rule of _execute_qc
\* Every answer the verdict and score patterns can extract: a verdict in any
\* letter case or none, a score in 0..MaxScore or none.
AllQCReplies ==
    QCTextReplies(VERDICT_TEXTS, 0..MaxScore) \cup {QC_RAISE, QC_ERRTEXT}

\* One task whose worker has answered on attempt 1 and whose verifier is invoked.
InitQC ==
    \E grp \in Groups :
        /\ tasks = <<[id |-> 1, dependencies |-> {}, parallel_group |-> grp]>>
        /\ plan_max_retries = <<max_retries>>
        /\ llm = [worker |-> {"text"}, qc |-> AllQCReplies, store |-> {TRUE}]
        /\ completed = {}
        /\ remaining = {1}
        /\ groups = <<>>
        /\ group_tasks = <<1>>
        /\ ctl = "gather"
        /\ wave = <<1>>
        /\ wave_no = 1
        /\ pc = <<"qc">>
        /\ attempt_number = <<1>>
        /\ worker_log = <<(<<"text">>)>>
        /\ worker_calls = <<1>>
        /\ qc_calls = <<1>>
        /\ qc_history = <<(<<>>)>>
        /\ result = <<NoResult>>
        /\ result_status = <<None>>
        /\ result_error = <<None>>
        /\ report = NoReport
        /\ graph = <<Some("qc_executing")>>
        /\ worker_context = <<None>>
        /\ pipe = PipeIdle
        /\ parser = NoParse

NextQC == \E i \in Indices : QCReturnStep(i)

\* _execute_qc applied once to every answer.
SpecQC == InitQC /\ [][NextQC]_vars

\* ------------------------------------------------------------ properties
Failed(i) == result[i].status = "failed" \/ result_status[i] = Some("failed")
Terminal(i) == result_status[i] \in {Some("completed"), Some("failed")}
InFlight(i) == pc[i] \in {"worker", "qc"}
DependsOn(j, i) == tasks[i].id \in tasks[j].dependencies

TaskIds(tks) == {tks[k].id : k \in 1..Len(tks)}

\* Task k depends, directly or through at most n dependency links, on the id.
RECURSIVE Reaches(_, _, _, _)
Reaches(tks, k, id, n) ==
    /\ n > 0
    /\ \E dep \in tks[k].dependencies :
          \/ dep = id
          \/ \E j \in 1..Len(tks) : tks[j].id = dep /\ Reaches(tks, j, id, n - 1)

HasCycle(tks) == \E k \in 1..Len(tks) : Reaches(tks, k, tks[k].id, Len(tks))

HasUnknownDependency(tks) ==
    \E k \in 1..Len(tks) : tks[k].dependencies \ TaskIds(tks) # {}

\* The status event "All tasks completed" that ends the final summary.
AllTasksCompletedEvent == report.kind = "summary"

Ended == ctl \in {"done", "stopped"}

\* C1  Dependency gating: a task whose worker has been invoked has every one of
\* its dependencies among the tasks of the run whose stored result status is
\* 'completed'; a failed or not yet run dependency never enables it.
C1_DependencyGating ==
    \A i \in Indices :
        pc[i] # "pending" =>
            \A dep \in tasks[i].dependencies :
                \E j \in Indices :
                    tasks[j].id = dep /\ result_status[j] = Some("completed")

\* A task with two dependencies has its worker in flight.
C1_Witness ==
    \E i \in Indices :
        pc[i] = "worker" /\ Cardinality(tasks[i].dependencies) = 2

\* C2  Wave barrier: whenever a task of a later ready list has been started,
\* every task of every earlier ready list has a terminal outcome.
C2_WaveBarrier ==
    \A i, j \in Indices :
        (wave[i] > 0 /\ wave[j] > wave[i] /\ pc[j] # "pending") =>
            pc[i] = "done" /\ Terminal(i)

\* Two tasks of the first ready list are done and a task of the second is running.
C2_Witness ==
    \E i, j, k \in Indices :
        /\ i # j
        /\ wave[i] = 1 /\ wave[j] = 1 /\ wave[k] = 2
        /\ pc[i] = "done" /\ pc[j] = "done"
        /\ InFlight(k)

\* C3  Cascade-stop: once a task has ended 'failed', every task of a later
\* ready list, every task that was in no ready list and every task that
\* depends on the failed task is still pending, with no worker and no verifier
\* call; when the run has stopped these tasks are listed among the remaining
\* tasks, and no remaining task is a failed one.
C3_CascadeStop ==
    \A i \in Indices :
        Failed(i) =>
            /\ \A j \in Indices :
                  (wave[j] = 0 \/ wave[j] > wave[i] \/ DependsOn(j, i)) =>
                      /\ pc[j] = "pending"
                      /\ worker_calls[j] = 0 /\ qc_calls[j] = 0
                      /\ result_status[j] = None
                      /\ ctl = "stopped" => j \in SeqRange(report.remaining)
            /\ ctl = "stopped" =>
                  \A j \in SeqRange(report.remaining) :
                      pc[j] = "pending" /\ ~Failed(j)

\* The run has stopped on a failed task A; B, started with A, completed; C,
\* which depends on A, is pending and reported as remaining.
C3_Witness ==
    /\ ctl = "stopped"
    /\ \E a, b, c \in Indices :
        /\ result_status[a] = Some("failed")
        /\ result_status[b] = Some("completed")
        /\ DependsOn(c, a)
        /\ pc[c] = "pending"
        /\ c \in SeqRange(report.remaining)

\* C4  Sibling isolation: a task in flight can always take the next step of
\* its own loop, whatever happened to the tasks started with it; the run does
\* not stop while a task is in flight; when it has stopped, every task gathered
\* with the failed one has returned its own outcome (completed only after a
\* passed verification of its latest attempt) and that outcome is the one
\* stored for it.
C4_SiblingIsolation ==
    /\ \A j \in Indices :
          /\ pc[j] = "worker" => ENABLED WorkerReturn(j)
          /\ pc[j] = "qc" => ENABLED QCReturn(j)
    /\ ctl = "stopped" =>
          /\ \A j \in Indices : pc[j] \in {"pending", "done"}
          /\ \A j \in SeqRange(group_tasks) :
                /\ pc[j] = "done"
                /\ result[j].status \in {"completed", "failed"}
                /\ result_status[j] = Some(result[j].status)
                /\ result_error[j] = result[j].error
                /\ result[j].status = "completed" =>
                      /\ Len(qc_history[j]) = attempt_number[j]
                      /\ Last(qc_history[j]).passed

\* The run has stopped with three tasks gathered together: one failed on a
\* worker error at its first attempt, one failed after its retries, one
\* completed at a later attempt.
C4_Witness ==
    /\ ctl = "stopped"
    /\ \E a, b, c \in SeqRange(group_tasks) :
        /\ result[a].error = Some("worker_error") /\ attempt_number[a] = 1
        /\ result[b].error = Some("qc_failed")
        /\ result[c].status = "completed" /\ attempt_number[c] = 2

C6_CircuitBreaker ==
    \A i \in Indices :
        /\ attempt_number[i] <= plan_max_retries[i] + 1
        /\ worker_calls[i] <= plan_max_retries[i] + 1

\* C7  Pass rule: a verification result made from the verifier's text passes
\* iff a verdict was found that reads PASS and a score of at least 80 was
\* found; PASS with 79 fails, PASS with 80 passes, FAIL with 95 fails.
C7_PassRule ==
    \A i \in Indices :
        \A k \in 1..Len(qc_history[i]) :
            LET r == qc_history[i][k]
                verdictPass == r.reply.verdict \in {<<"PASS">>, <<"pass">>}
                scoreOk == r.reply.score # <<>> /\ r.reply.score[1] >= 80
            IN
            /\ r.reply.kind # "raise" => (r.passed <=> (verdictPass /\ scoreOk))
            /\ r.reply = QCReply("text", <<"PASS">>, <<79>>) => ~r.passed
            /\ r.reply = QCReply("text", <<"PASS">>, <<80>>) => r.passed
            /\ r.reply = QCReply("text", <<"FAIL">>, <<95>>) => ~r.passed

\* The verifier answered PASS with score 80 and the task completed.
C7_Witness ==
    \E i \in Indices :
        /\ qc_history[i] # <<>>
        /\ Last(qc_history[i]).reply = QCReply("text", <<"PASS">>, <<80>>)
        /\ result[i].status = "completed"

C9_WorkerFailureTerminal ==
    \A i \in Indices :
        \A k \in 1..Len(worker_log[i]) :
            worker_log[i][k] # "text" =>
                /\ k = Len(worker_log[i])
                /\ worker_calls[i] = k
                /\ pc[i] \in {"returned", "done"}
                /\ result[i].status = "failed"
                /\ result[i].error = Some("worker_error")
                /\ qc_calls[i] = k - 1

C11_CycleFailClosed ==
    HasCycle(tasks) =>
        \A i \in Indices : pc[i] = "pending" /\ worker_calls[i] = 0

\* C12 as stated: in a run over a task set in which some task lists a
\* dependency that is no task's id, no task is ever started (not even one
\* whose own dependencies all resolve), and the run ends on an error.
C12_UnknownDependencyRejected ==
    HasUnknownDependency(tasks) =>
        /\ \A i \in Indices : pc[i] = "pending" /\ worker_calls[i] = 0
        /\ Ended => report.error

\* C13  Deadlock halts: at the loop head with an empty ready list and tasks
\* remaining, the only step is the one that reports the error and leaves the
\* loop; once the error is reported the run is over, nothing is in flight,
\* and no step of the scheduler, a worker or a verifier is possible.
C13_DeadlockHalts ==
    /\ (ctl = "loop" /\ remaining # {}
           /\ Ready(tasks, remaining, completed) = <<>>) =>
          /\ ENABLED CircularDependency
          /\ ~ENABLED ScheduleWave
          /\ ~ENABLED StartGroup
    /\ (ctl = "done" /\ remaining # {}) => report.error
    /\ report.error =>
          /\ ctl = "done"
          /\ remaining # {}
          /\ \A i \in Indices : ~InFlight(i) /\ pc[i] \in {"pending", "done"}
          /\ ~ENABLED Next

\* A first task completed, then the ready list was empty with the two other
\* tasks remaining, and the run ended on the error.
C13_Witness ==
    /\ ctl = "done"
    /\ report.error
    /\ Cardinality(remaining) = 2
    /\ \E i \in Indices : result_status[i] = Some("completed")

\* C14  Termination: every run in which each capability call returns ends
\* (final summary or stop), whatever the plan, cyclic or not, and whatever
\* the workers and verifiers answer; and every iteration of the scheduling
\* loop that comes back to the loop head has removed at least one id from
\* 'remaining': after n iterations at most Len(tasks) - n ids remain.
C14_Termination ==
    /\ [](ctl = "loop" => Cardinality(remaining) + wave_no <= Len(tasks))
    /\ [](ctl \in {"groups", "gather"} =>
             Cardinality(remaining) + wave_no <= Len(tasks) + 1)
    /\ <>Ended

\* The run ended with the final summary after as many iterations as the plan
\* has tasks.
C14_Witness ==
    /\ ctl = "done"
    /\ ~report.error
    /\ wave_no = Len(tasks)
    /\ remaining = {}

\* C15 as stated: a run that reported the graph error (empty ready list with
\* tasks remaining) does not emit the "All tasks completed" status event.
C15_GraphErrorNotSuccess ==
    report.error => ~AllTasksCompletedEvent

\* The number of tasks whose stored result status is the given one.
StoredCount(status) ==
    Cardinality({k \in Indices : result_status[k] = Some(status)})

\* C16 as stated: when the run has ended, the tasks the report shows as
\* completed, as failed and as skipped (the remaining tasks it lists) add up
\* to the number of tasks; the completed and failed counts of the final
\* summary are the numbers of tasks whose state machine returned 'completed'
\* and 'failed'.
C16_ReportAccounting ==
    Ended =>
        /\ StoredCount("completed") + StoredCount("failed")
               + Len(report.remaining) = Len(tasks)
        /\ report.kind = "summary" =>
              /\ report.completed_count = StoredCount("completed")
              /\ report.failed_count = StoredCount("failed")

\* The run ended with the final summary, every task completed, none failed
\* and none left.
AllCompleted ==
    /\ ctl = "done"
    /\ ~report.error
    /\ remaining = {}
    /\ report.completed_count = Len(tasks)
    /\ report.failed_count = 0
    /\ \A i \in Indices : result_status[i] = Some("completed") /\ pc[i] = "done"

\* The plan A (no dependencies), B (depends on A), C (depends on A).
FanOutPlan ==
    /\ tasks[1].dependencies = {}
    /\ tasks[2].dependencies = {tasks[1].id}
    /\ tasks[3].dependencies = {tasks[1].id}

\* C17  All-pass run: over a plan without a cycle (ids unique, dependencies
\* resolvable), when every verification passes at the first attempt the run
\* eventually ends with every task completed, none failed and none left; the
\* worker of a task is invoked only when the task is pending, a task never
\* becomes pending again, and no task has a second attempt, so each worker
\* is invoked exactly once; for the plan A, B (dep A), C (dep A) the first
\* ready list is {A} and the second {B, C}.
C17_AllPassRun ==
    /\ [][\A i \in Indices :
            /\ worker_calls'[i] > worker_calls[i] =>
                  pc[i] = "pending" /\ worker_calls'[i] = 1
            /\ pc[i] # "pending" => pc'[i] # "pending"]_vars
    /\ [](\A i \in Indices : attempt_number[i] <= 1 /\ qc_calls[i] <= 1)
    /\ []((FanOutPlan /\ wave_no >= 2) =>
            wave[1] = 1 /\ wave[2] = 2 /\ wave[3] = 2)
    /\ <>[](HasCycle(tasks) \/ AllCompleted)

\* The plan A, B (dep A), C (dep A) ended with three tasks completed after
\* two ready lists.
C17_Witness ==
    /\ FanOutPlan
    /\ AllCompleted
    /\ wave_no = 2
    /\ report.completed_count >= 3

SameWave(i, j) == wave[i] > 0 /\ wave[i] = wave[j]
Started(i) == pc[i] # "pending"

C19_RetryThenPass ==
    \A i \in Indices :
        LET N == plan_max_retries[i]
            h == qc_history[i]
        IN
        (\A k \in 1..Len(worker_log[i]) : worker_log[i][k] = "text") =>
            /\ result[i].status = "completed" =>
                  /\ Len(h) = attempt_number[i]
                  /\ result[i].attempts = Some(Len(h))
                  /\ Last(h).passed
                  /\ \A k \in 1..(Len(h) - 1) : ~h[k].passed
            /\ (Len(h) <= N /\ \A k \in 1..Len(h) : ~h[k].passed) =>
                  result[i].status # "failed"

\* C20  The state store is best-effort: whichever store calls fail, every step
\* of the run is a step the state machine takes on its own state (ready
\* lists, worker and verifier invocations, attempt counts, returned and
\* stored outcomes, report), the same it takes when every store call
\* succeeds; no store failure aborts the run, and a task in flight can always
\* take its next step whatever the store holds.
C20_StoreBestEffort ==
    /\ [][StateMachine]_machine_vars
    /\ [](ctl # "crashed")
    /\ [](\A i \in Indices :
             /\ pc[i] = "worker" => ENABLED WorkerReturnStep(i)
             /\ pc[i] = "qc" => ENABLED QCReturnStep(i))

\* A run ended with the final summary: a task completed while the store,
\* every later call having failed, still shows its worker executing.
C20_Witness ==
    /\ ctl = "done"
    /\ ~report.error
    /\ \E i \in Indices :
          /\ result_status[i] = Some("completed")
          /\ graph[i] = Some("worker_executing")

\* C21 as stated: at most one worker/verify/retry state machine is ever
\* executed for a task id: two tasks of the list that carry the same id are
\* never both started.
C21_ExclusiveOwnership ==
    \A i, j \in Indices :
        (i # j /\ tasks[i].id = tasks[j].id) => ~(Started(i) /\ Started(j))

\* C25  Retry feedback ordering: while the worker of attempt n runs, the retry
\* context of its prompt is, for n > 1, the verification record of attempt
\* n - 1 (score, feedback and the answer the issues and fixes are taken
\* from), which is the latest record of the history, and for n = 1 nothing.
C25_RetryFeedback ==
    \A i \in Indices :
        pc[i] = "worker" =>
            LET n == attempt_number[i] IN
            /\ Len(qc_history[i]) = n - 1
            /\ worker_context[i] =
                  IF n > 1 THEN Some(qc_history[i][n - 1]) ELSE None

\* The worker of attempt 3 runs after two verifications with different scores.
\* C22 as stated: request deduplication is shared across the Pipe objects of
\* a process: a fingerprint accepted by one object is not accepted by another
\* object less than the cache TTL later, so two objects never both hold an
\* accepted entry of the same fingerprint with timestamps less than the TTL apart.
C22_SharedDeduplication ==
    \A i, j \in Instances :
        \A key \in DOMAIN pipe.caches[i] \cap DOMAIN pipe.caches[j] :
            LET a == pipe.caches[i][key]
                b == pipe.caches[j][key]
            IN  (i # j /\ a <= b) => b - a >= TTL_TICKS

\* C23 as stated: run-scoped task ids are globally unique: no task record
\* created by one request has the id of a task record created by another.
C23_RunScopedIdsUnique ==
    \A x, y \in pipe.created : x.run # y.run => x.id # y.id

\* C24  Empty plan means no work: when the parser returns the empty list, the
\* request creates no todoList, task record or edge, runs no task, reports
\* that no tasks were found, raises nothing and ends with the one final
\* status event 'Orchestration complete'.
C24_EmptyPlanNoWork ==
    pipe.last.plan = Some(<<>>) =>
        /\ pipe.last.records = {}
        /\ pipe.last.edges = {}
        /\ pipe.last.todolist = None
        /\ \A record \in pipe.created : record.run # pipe.handled
        /\ pipe.last.worker_stage = "no_tasks"
        /\ pipe.last.done_events = <<"Orchestration complete">>

C24_Witness ==
    /\ pipe.last.plan = Some(<<>>)
    /\ pipe.last.outcome = "accepted"
    /\ "workers" \in pipe.last.stages
    /\ pipe.created # {}

C25_Witness ==
    \E i \in Indices :
        /\ pc[i] = "worker"
        /\ attempt_number[i] = 3
        /\ qc_history[i][1].score # qc_history[i][2].score

\* C26 as stated, for a task whose plan segment states Max Retries N, whose
\* worker calls all answered and whose verifications all failed: worker and
\* verifier calls alternate and never exceed N + 1 each; the task has ended
\* 'failed' only after exactly N + 1 worker and N + 1 verifier calls, with
\* the score of the last verification; and while at most N verifications
\* have failed it has not ended 'failed'.
C26_RetryExhaustion ==
    \A i \in Indices :
        LET N == plan_max_retries[i]
            h == qc_history[i]
        IN
        (/\ \A k \in 1..Len(worker_log[i]) : worker_log[i][k] = "text"
         /\ \A k \in 1..Len(h) : ~h[k].passed) =>
            /\ worker_calls[i] = qc_calls[i] + (IF pc[i] = "worker" THEN 1 ELSE 0)
            /\ worker_calls[i] <= N + 1
            /\ result[i].status = "failed" =>
                  /\ worker_calls[i] = N + 1
                  /\ qc_calls[i] = N + 1
                  /\ result[i].qc_score = Some(Last(h).score)
            /\ Len(h) <= N => result[i].status # "failed"

\* C27  Record before returning: while the store answers, a worker call in
\* flight has the record 'worker_executing' and a verifier call in flight has
\* the record 'qc_executing' (on every attempt), and an outcome returned to
\* the controller ('completed', or 'failed' after exhausted retries or a
\* failed worker) has its status recorded for the task.
C27_RecordBeforeReturning ==
    \A i \in Indices :
        /\ pc[i] = "worker" => graph[i] = Some("worker_executing")
        /\ pc[i] = "qc" => graph[i] = Some("qc_executing")
        /\ pc[i] = "returned" =>
              /\ result[i].status \in {"completed", "failed"}
              /\ graph[i] = Some(result[i].status)

\* A second attempt's worker call ended in a failure that was returned.
C27_Witness ==
    \E i \in Indices :
        /\ pc[i] = "returned"
        /\ attempt_number[i] = 2
        /\ result[i] = WorkerFailedResult
        /\ graph[i] = Some("failed")

\* C28  Terminal status is final, in a run over a plan with distinct task
\* ids: once 'completed' or 'failed' is recorded for a task, no step of the
\* run records another status for it, starts its worker or verifier, counts
\* another call of either, or changes its verification history other than
\* dropping it with the finished coroutine.
C28_TerminalStatusFinal ==
    [][\A i \in Indices :
          graph[i] \in {Some("completed"), Some("failed")} =>
              /\ graph'[i] = graph[i]
              /\ pc'[i] \notin {"worker", "qc"}
              /\ worker_calls'[i] <= worker_calls[i]
              /\ qc_calls'[i] <= qc_calls[i]
              /\ qc_history'[i] \in {qc_history[i], <<>>}
              /\ result_status[i] # None => result_status'[i] = result_status[i]]_vars

\* A task is recorded 'completed' and gathered while a task of a later wave
\* is at its verifier.
C28_Witness ==
    \E i, j \in Indices :
        /\ graph[i] = Some("completed")
        /\ pc[i] = "done"
        /\ wave[j] > wave[i]
        /\ pc[j] = "qc"

\* C29  Ready set is exact: the tasks put into the groups of a wave are, each
\* once, exactly the tasks not yet started whose dependencies are all in the
\* completed set at that moment (none is left for a later wave), and the wave
\* is the ready list computed from the task list and the two sets alone.
C29_ReadySetExact ==
    [][(ctl = "loop" /\ ctl' = "groups") =>
          LET scheduled == UNION {SeqRange(groups'[g]) : g \in 1..Len(groups')}
              eligible == {k \in Indices :
                             /\ pc[k] = "pending"
                             /\ tasks[k].dependencies \subseteq completed}
          IN  /\ scheduled = eligible
              /\ \A g, h \in 1..Len(groups') :
                    g # h => SeqRange(groups'[g]) \cap SeqRange(groups'[h]) = {}
              /\ \A g \in 1..Len(groups') :
                    Cardinality(SeqRange(groups'[g])) = Len(groups'[g])
              /\ scheduled = SeqRange(Ready(tasks, remaining, completed))]_vars

\* The second wave of a run has been computed: it holds a task whose
\* dependency ran in the first wave and is in the completed set.
C29_Witness ==
    /\ ctl = "groups"
    /\ wave_no = 2
    /\ \E i, j \in Indices :
          /\ wave[i] = 2 /\ pc[i] = "pending"
          /\ wave[j] = 1 /\ pc[j] = "done"
          /\ tasks[j].id \in tasks[i].dependencies
          /\ tasks[j].id \in completed

\* C30  Bookkeeping of a run over a plan with distinct task ids: 'completed'
\* and 'remaining' are always disjoint
\* and together hold every task id of the run; in every step 'completed'
\* only grows and 'remaining' only shrinks; and an id moves from 'remaining'
\* to 'completed' only when the state machine of its task has returned
\* 'completed' or 'failed'.
C30_Bookkeeping ==
    /\ [](/\ completed \cap remaining = {}
          /\ completed \cup remaining = {tasks[k].id : k \in Indices})
    /\ [][/\ completed \subseteq completed'
          /\ remaining' \subseteq remaining
          /\ \A i \in Indices :
                (tasks[i].id \in remaining /\ tasks[i].id \in completed') =>
                    /\ pc[i] = "returned"
                    /\ result[i].status \in {"completed", "failed"}]_vars

\* Between two waves: one id has moved to 'completed', another is still in
\* 'remaining'.
C30_Witness ==
    /\ ctl = "loop"
    /\ completed # {}
    /\ remaining # {}
    /\ \E i \in Indices : tasks[i].id \in completed /\ pc[i] = "done"

\* The step is pipe() handling one request.
RequestHandled == pipe'.handled = pipe.handled + 1

\* C31  Deduplication window on one Pipe object: a request whose fingerprint
\* is in the object's cache with a time less than 3 seconds before now gets
\* the duplicate notice, enters no stage, creates nothing, emits no final
\* event and leaves every cache as it was (the time is not refreshed); any
\* other request is accepted and its cache entry is set to the current time.
C31_DeduplicationWindow ==
    [][RequestHandled =>
          LET inst == pipe'.last.instance
              key == pipe'.last.key
              cache == pipe.caches[inst]
              recent == /\ key \in DOMAIN cache
                        /\ pipe.now - cache[key] < CACHE_TTL * TicksPerSecond
          IN  IF recent
              THEN /\ pipe'.last.outcome = "duplicate"
                   /\ pipe'.last.stages = {}
                   /\ pipe'.last.worker_stage = "skipped"
                   /\ pipe'.last.records = {}
                   /\ pipe'.last.done_events = <<>>
                   /\ pipe'.created = pipe.created
                   /\ pipe'.caches = pipe.caches
              ELSE /\ pipe'.last.outcome = "accepted"
                   /\ key \in DOMAIN pipe'.caches[inst]
                   /\ pipe'.caches[inst][key] = pipe.now]_vars

\* A request was answered as a duplicate at a later time than the time its
\* fingerprint was accepted, and the cache still holds the earlier time.
C31_Witness ==
    /\ pipe.last.outcome = "duplicate"
    /\ pipe.caches[pipe.last.instance][pipe.last.key] < pipe.now

\* C32  Cache pruning: right after a request is accepted at time t, every
\* entry of that object's cache is younger than 3 seconds at t, the entries
\* kept have their times unchanged, the accepted fingerprint is present with
\* time t, and the other object's cache is untouched; a rejected duplicate
\* changes no cache.
C32_CachePruning ==
    [][RequestHandled =>
          LET inst == pipe'.last.instance
              key == pipe'.last.key
              before == pipe.caches[inst]
              after == pipe'.caches[inst]
              t == pipe.now
          IN  IF pipe'.last.outcome = "accepted"
              THEN /\ \A k \in DOMAIN after :
                         t - after[k] < CACHE_TTL * TicksPerSecond
                   /\ key \in DOMAIN after /\ after[key] = t
                   /\ \A k \in DOMAIN after \ {key} :
                         k \in DOMAIN before /\ after[k] = before[k]
                   /\ \A k \in DOMAIN before \ {key} :
                         t - before[k] < CACHE_TTL * TicksPerSecond
                             => k \in DOMAIN after
                   /\ \A other \in Instances \ {inst} :
                         pipe'.caches[other] = pipe.caches[other]
              ELSE pipe'.caches = pipe.caches]_vars

\* After an accepted request the object's cache holds the accepted
\* fingerprint and an older entry that is still within the window.
C32_Witness ==
    /\ pipe.last.outcome = "accepted"
    /\ \E k \in DOMAIN pipe.caches[pipe.last.instance] :
          /\ k # pipe.last.key
          /\ pipe.caches[pipe.last.instance][k]
                < pipe.caches[pipe.last.instance][pipe.last.key]

\* C35  Pipeline-mode stage gating: an accepted request in mode 'ecko-only'
\* enters neither the PM stage nor the worker stage; in mode 'ecko-pm', which
\* is also the mode of a model that is no 'mimir:' mode, it does not enter
\* the worker stage; and tasks are executed only in mode 'full' with
\* WORKERS_ENABLED, after the PM stage has run and its output was parsed.
C35_StageGating ==
    pipe.last.outcome = "accepted" =>
        /\ pipe.model \notin MIMIR_MODELS => pipe.last.mode = "ecko-pm"
        /\ pipe.model = "mimir:ecko-only" => pipe.last.mode = "ecko-only"
        /\ pipe.model = "mimir:ecko-pm" => pipe.last.mode = "ecko-pm"
        /\ pipe.last.mode = "ecko-only" =>
              pipe.last.stages \cap {"pm", "workers"} = {}
        /\ pipe.last.mode = "ecko-pm" => "workers" \notin pipe.last.stages
        /\ "workers" \in pipe.last.stages =>
              pipe.last.mode = "full" /\ pipe.valves.WORKERS_ENABLED
        /\ pipe.last.worker_stage \in {"executed", "no_tasks"} =>
              /\ "workers" \in pipe.last.stages
              /\ "pm" \in pipe.last.stages
              /\ pipe.last.plan # None
        /\ pipe.last.worker_stage = "executed" => pipe.last.plan # Some(<<>>)
        /\ pipe.last.records # {} => pipe.last.worker_stage = "executed"

\* A request for a regular model ended after the PM stage although the worker
\* stage is enabled.
C35_Witness ==
    /\ pipe.last.outcome = "accepted"
    /\ pipe.model = "gpt-4.1"
    /\ pipe.valves.WORKERS_ENABLED
    /\ pipe.last.stages = {"ecko", "context", "pm"}
    /\ pipe.last.done_events = <<"Planning complete">>

\* C38 as stated: single completion signal: an accepted request in mode
\* 'full' emits at most one status event with done = True, and after a
\* cascade stop that event reports the stop.
C38_SingleCompletionSignal ==
    (pipe.last.outcome = "accepted" /\ pipe.last.mode = "full") =>
        /\ Len(pipe.last.done_events) <= 1
        /\ (\E k \in 1..Len(pipe.last.done_events) :
               pipe.last.done_events[k] = ExecutionEvent("stopped"))
              => Last(pipe.last.done_events) = ExecutionEvent("stopped")

\* C33: id rewriting preserves the dependency relation: after the prefixing,
\* the rewritten id of U is in T's rewritten dependencies iff the original id
\* of U was in T's original dependencies; each id and each dependency carries
\* the orchestration id exactly once, and original_id keeps the parsed id.
C33_RewritingPreservesDependencies ==
    pipe.last.worker_stage = "executed" =>
        LET plan == pipe.last.plan[1]
            rewritten == pipe.last.tasks
            orchestration_id == pipe.last.todolist[1]
        IN  /\ Len(rewritten) = Len(plan)
            /\ \A t \in 1..Len(plan) :
                  /\ Head(rewritten[t].id) = orchestration_id
                  /\ Tail(rewritten[t].id) = plan[t].id
                  /\ rewritten[t].original_id = plan[t].id
                  /\ \A dep \in rewritten[t].dependencies :
                        /\ Head(dep) = orchestration_id
                        /\ Tail(dep) \in plan[t].dependencies
                  /\ \A dep \in plan[t].dependencies :
                        <<orchestration_id>> \o dep \in rewritten[t].dependencies
                  /\ \A u \in 1..Len(plan) :
                        rewritten[u].id \in rewritten[t].dependencies
                            <=> plan[u].id \in plan[t].dependencies

\* a plan of two tasks that depend on each other has been rewritten under an
\* orchestration id other than 0
C33_Witness ==
    /\ pipe.last.worker_stage = "executed"
    /\ Len(pipe.last.tasks) = 2
    /\ pipe.last.todolist = Some(1)
    /\ pipe.last.plan[1][1].dependencies = {<<2>>}
    /\ pipe.last.plan[1][2].dependencies = {<<1>>}
    /\ pipe.last.tasks[1].dependencies = {<<1, 2>>}

\* C34 as stated: the depends_on edges requested from the store go from the
\* run-scoped id of T to the run-scoped id under which D was created.
C34_EdgesUseUniqueIds ==
    pipe.last.worker_stage = "executed" =>
        LET plan == pipe.last.plan[1]
            orchestration_id == pipe.last.todolist[1]
        IN  /\ pipe.last.edges =
                 UNION {{<< <<orchestration_id>> \o plan[t].id,
                            <<orchestration_id>> \o dep >> :
                            dep \in plan[t].dependencies} : t \in 1..Len(plan)}
            /\ \A edge \in pipe.last.edges :
                  edge[1] \in pipe.last.records /\ edge[2] \in pipe.last.records

\* C39: the fall-through result after the retry loop of _execute_with_qc is
\* unreachable: whatever the worker and the verifier answer, no task gets the
\* result 'Unexpected error in QC loop'; a returned task returned from inside
\* the loop, on a worker failure, on a passed verification or on a failed
\* verification with attempt_number > max_retries.
C39_FallThroughUnreachable ==
    \A i \in Indices :
        /\ result[i] # UnexpectedResult
        /\ result[i].error # Some("unexpected_error")
        /\ attempt_number[i] <= max_retries + 1
        /\ pc[i] = "returned" =>
              \/ result[i] = WorkerFailedResult
              \/ /\ result[i].status = "completed"
                 /\ result[i].attempts = Some(attempt_number[i])
              \/ /\ result[i].error = Some("qc_failed")
                 /\ result[i].attempts = Some(attempt_number[i])
                 /\ attempt_number[i] > max_retries

\* the last pass of the loop (attempt max_retries + 1) ended in a failed
\* verification and returned through the circuit breaker
C39_Witness ==
    \E i \in Indices :
        /\ pc[i] = "returned"
        /\ attempt_number[i] = max_retries + 1
        /\ Len(worker_log[i]) = max_retries + 1
        /\ result[i].error = Some("qc_failed")

\* C36 as stated: dependency field parsing: for every task segment, a
\* Dependencies value equal to 'none' or 'n/a' in any letter case, or a
\* missing Dependencies field, yields an empty dependency list (as does a
\* field without a value); any other value yields the list of its
\* comma-separated items, each trimmed, in order.
C36_DependencyFieldParsing ==
    (parser.called /\ ~parser.raised) =>
        LET sections == Sections(parser.pm_output)
            found == TaskSections(sections)
        IN  \A k \in 1..Len(parser.tasks) :
              LET section == sections[found[k]]
                  fields == {j \in 1..Len(section) :
                               section[j].field = "Dependencies"}
                  value == Strip(section[CHOOSE j \in fields :
                                           \A l \in fields : j <= l].value)
              IN  parser.tasks[k].dependencies =
                    IF fields = {} THEN <<>>
                    ELSE IF value = <<>> THEN <<>>
                    ELSE IF LowerText(value) \in {<<"none">>, <<"n/a">>} THEN <<>>
                    ELSE [i \in 1..Len(Split(value)) |-> Strip(Split(value)[i])]

\* C37 as stated: segment handling: the parser never raises; it returns one
\* task per segment that carries a recognizable task id, in document order,
\* each with status 'pending'; a segment without a recognizable id
\* contributes no task and is recorded as skipped.
C37_SegmentHandling ==
    parser.called =>
        LET sections == Sections(parser.pm_output)
            found == TaskSections(sections)
        IN  /\ ~parser.raised
            /\ Len(parser.tasks) = Len(found)
            /\ \A k \in 1..Len(found) :
                  /\ parser.tasks[k].id =
                        NormalizeId(TaskIdMatch(sections[found[k]])[1])
                  /\ parser.tasks[k].status = "pending"
            /\ \A i \in 1..Len(sections) :
                  TaskIdMatch(sections[i]) = None =>
                      \E k \in 1..Len(parser.skipped) :
                          parser.skipped[k].section = i

====
